---------------------------- MODULE Spec2Model ----------------------------
(***************************************************************************)
(* Model of the LoamLabs inventory monitor webhooks.                       *)
(*                                                                         *)
(* Spec      : the inventory_levels/update handler (sibling sync and       *)
(*             back-in-stock notification) together with the               *)
(*             request-notification endpoint that fills the waitlists.     *)
(* SpecSync  : the current inventory handler over catalogs whose third     *)
(*             variant varies in sync key and product title.               *)
(* SpecConverge : the same, one delivery at a time, every call answered.   *)
(* SpecOrder : the orders/create and orders/cancelled handler (historical  *)
(*             counters and the low-stock report).                         *)
(* SpecScan  : the low-stock test of the scan loop on one variant.         *)
(* SpecHooks : both webhooks, signed and unsigned requests.                *)
(* SpecLedger: orders of one and of two line items.                        *)
(* SpecShapes: signed requests that are not well-formed events.            *)
(* SpecAlert : the per-variant alert handler and its process memory.       *)
(* SpecCascade : the cascade of events the sibling sync sets off, for as   *)
(*             long as it lasts.                                           *)
(* SpecRace  : two order deliveries for the same spoke at the same time.   *)
(*                                                                         *)
(* Every awaited network call of a handler is one step, so that two        *)
(* deliveries interleave exactly where the code can be suspended.  A       *)
(* remote call that rejects is a separate action that ends the delivery    *)
(* the way the enclosing try/catch does.                                   *)
(***************************************************************************)
EXTENDS Integers, Sequences, FiniteSets, TLC

\* ------------------------------------------------------------- bounds
MaxQty == 1            \* stock levels an external stock change may set: 0..MaxQty
MaxStockChanges == 2   \* SpecSync: external stock changes in one behaviour
MaxDeliveries == 2     \* SpecSync: inventory webhook deliveries in one behaviour
SeqDeliveries == 4     \* SpecConverge: inventory webhook deliveries in one behaviour
WaitStockChanges == 1  \* Spec: external stock changes in one behaviour
WaitDeliveries == 2    \* Spec: inventory webhook deliveries in one behaviour
MaxRequests == 3       \* Spec: notification requests in one behaviour
MaxStock == 1          \* SpecOrder: stock of a monitored spoke variant: 0..MaxStock
MaxOrders == 2         \* SpecOrder: orders placed or cancelled in one behaviour
MaxRestocks == 1       \* SpecOrder: restocks in one behaviour
HookStockChanges == 1   \* SpecHooks: external stock changes in one behaviour
HookOrders == 1         \* SpecHooks: orders placed in one behaviour
HookDeliveries == 2     \* SpecHooks: deliveries to each webhook in one behaviour
LedgerOrders == 2        \* SpecLedger: orders placed or cancelled in one behaviour
LedgerDeliveries == 3    \* SpecLedger: deliveries to the order webhook in one behaviour
ShapeEvents == 2         \* SpecShapes: events emitted for each webhook in one behaviour
ShapeDeliveries == 3     \* SpecShapes: deliveries to each webhook in one behaviour
RaceOrders == 2          \* SpecRace: orders placed in one behaviour
RaceDeliveries == 2      \* SpecRace: deliveries to the order webhook in one behaviour
AlertMaxQty == 2        \* alert handler: the available of an event: 0..AlertMaxQty
AlertDeliveries == 3    \* alert handler: deliveries of one behaviour
MaxProbeQty == 6        \* SpecScan: quantity of the probed variant: 0..MaxProbeQty
MaxOrderDeliveries == 3  \* SpecOrder: order webhook deliveries and manual tests

\* ------------------------------------------------------------- program constants
SearchCap == 50        \* productVariants(first: 50, ...)

\* ------------------------------------------------------------- universe
Variants == {"V1", "V2", "V3"}
Emails == {"a", "b"}
StockVariants == {"V1", "V3"}  \* the variants whose stock is changed from outside
RequestVariants == {"V1"}      \* the variants customers ask to be notified about
Slots == {"s1", "s2"}          \* deliveries that may be in progress at once
Revisions == {"sync", "legacy"}
NoKey == "none"
NoLocation == "none"
Locations == {"L1"}

VARIABLES
  rev,            \* which revision of api/handle-inventory-update is deployed
  syncKeyOf,      \* catalog: custom.inventory_sync_key of each variant (NoKey: unset)
  titleOf,        \* catalog: first three words of the product title of each variant
  qty,            \* catalog: inventoryQuantity of each variant
  waitlist,       \* store: the list stock_notification_requests:<variant>
  pending,        \* inventory events the platform has emitted and still has to deliver (in any order)
  h,              \* the inventory handler invocations, one per slot
  req,            \* the request-notification invocation
  lastTrigger,    \* the event most recently handed to the Sibling Resolver
  lastClean,      \* event and adjustments of the latest delivery that ran alone and ended 200
  caps,           \* how many stock changes, deliveries and requests a behaviour may hold
  nStockChanges,
  nDeliveries,
  nRequests,
  orev,           \* which revision of api/index is deployed
  spokeQty,       \* catalog: inventoryQuantity of each spoke variant
  ledger,         \* catalog: custom.historical_order_count of each variant (NoCount: unset)
  snapshot,       \* store: the value under last_report_list_json
  opending,       \* order webhooks the platform has emitted and still has to deliver
  o,              \* the order handler invocations, one per slot
  reports,        \* every low-stock report sent so far
  lastReport,     \* the SKU list of the most recently sent report
  nOrders,
  nRestocks,
  nOrderDeliveries,
  probe,          \* SpecScan: one variant handed to the scan loop, and the loop's verdict
  alert           \* the per-variant alert handler of api/index: its process memory and its invocation

invVars == <<rev, syncKeyOf, titleOf, qty, waitlist, pending, h, req,
             lastTrigger, lastClean, caps, nStockChanges, nDeliveries, nRequests>>

ordVars == <<orev, spokeQty, ledger, snapshot, opending, o, reports, lastReport,
             nOrders, nRestocks, nOrderDeliveries, probe, alert>>

vars == <<invVars, ordVars>>

NoEvent == [item |-> "none", loc |-> NoLocation, available |-> 0]
NoClean == [ev |-> NoEvent, adjusts |-> {}]

\* ------------------------------------------------------------- pure helpers
Range(s) == {s[i] : i \in 1..Len(s)}

\* [...new Set(emails)]: the first occurrence of each email, in order
RECURSIVE Dedup(_)
Dedup(s) ==
  IF s = <<>> THEN <<>>
  ELSE LET front == Dedup(SubSeq(s, 1, Len(s) - 1))
           last == s[Len(s)]
       IN IF last \in Range(front) THEN front ELSE Append(front, last)

\* the catalog's answer order: by variant id
VariantOrder == <<"V1", "V2", "V3">>

RECURSIVE FilterSeq(_, _)
FilterSeq(s, keep) ==
  IF s = <<>> THEN <<>>
  ELSE LET rest == FilterSeq(Tail(s), keep)
       IN IF Head(s) \in keep THEN <<Head(s)>> \o rest ELSE rest

\* ------------------------------------------------------------- handler records
Idle ==
  [pc |-> "idle", ev |-> NoEvent, updates |-> <<>>, emails |-> <<>>,
   status |-> 0, adjusts |-> {}, rejected |-> {}, synced |-> FALSE,
   sendCalls |-> 0, sends |-> {}, notified |-> {}, sendOk |-> FALSE,
   sendFailed |-> FALSE, delDone |-> FALSE, clean |-> FALSE, replay |-> FALSE,
   first |-> {}, forged |-> FALSE, raced |-> FALSE]

Busy(rec) == rec.pc \notin {"idle", "done"}

\* a new invocation takes the first slot that is not in use
Free(hh, s) == /\ ~Busy(hh[s])
               /\ s = "s2" => (caps.overlap /\ Busy(hh["s1"]))

\* return res.status(code)...: the invocation is over
Respond(rec, code) == [rec EXCEPT !.pc = "done", !.status = code, !.updates = <<>>]

\* the catch block of the handler: any rejected await ends the delivery with 500
Caught(rec) == Respond(rec, 500)

\* the platform delivers again an event whose delivery was answered 500
Retried(rec) == IF rec.pc = "done" /\ rec.status = 500 THEN {rec.ev} ELSE {}

\* a delivery stops being "alone" as soon as anything else touches the catalog
Disturb(hh, s) == [t \in Slots |-> IF t = s THEN hh[t] ELSE [hh[t] EXCEPT !.clean = FALSE]]

\* the event and the adjustments of a delivery that ran alone, had every adjustment
\* applied and was answered 200, for the next delivery to replay
CleanEvent(rec) ==
  IF rec.pc = "done" /\ rec.status = 200 /\ rec.clean /\ rec.rejected = {}
  THEN [ev |-> rec.ev, adjusts |-> rec.adjusts]
  ELSE NoClean

\* ------------------------------------------------------------- the platform
\* An admin or a customer changes the stock level of a variant; the platform
\* emits inventory_levels/update for it.
StockChange(v, q, l) ==
  /\ nStockChanges < caps.stock
  /\ qty[v] # q
  /\ qty' = [qty EXCEPT ![v] = q]
  /\ pending' = pending \cup {[item |-> v, loc |-> l, available |-> q]}
  /\ nStockChanges' = nStockChanges + 1
  /\ h' = [t \in Slots |-> [h[t] EXCEPT !.clean = FALSE]]
  /\ lastClean' = NoClean
  /\ UNCHANGED <<ordVars, rev, caps, syncKeyOf, titleOf, waitlist, req, lastTrigger,
                 nDeliveries, nRequests>>

\* ------------------------------------------------------------- Sibling Resolver
\* productVariants(first: 50, query: <first three words of the title>)
SearchCandidates(trigger) ==
  LET hits == {v \in Variants : titleOf[v] = titleOf[trigger]}
  IN IF Cardinality(hits) <= SearchCap THEN hits
     ELSE CHOOSE c \in SUBSET hits : Cardinality(c) = SearchCap

\* mutation: the filter without its quantity test
FilterAnyQuantity(candidates, trigger, newQuantity) ==
  {v \in candidates : /\ syncKeyOf[v] = syncKeyOf[trigger]
                      /\ v # trigger}

\* mutation: the filter without its self-exclusion
FilterWithSelf(candidates, trigger, newQuantity) ==
  {v \in candidates : /\ syncKeyOf[v] = syncKeyOf[trigger]
                      /\ qty[v] # newQuantity}

\* mutation: the filter without its key test
FilterAnyKey(candidates, trigger, newQuantity) ==
  {v \in candidates : /\ v # trigger
                      /\ qty[v] # newQuantity}

\* candidates.filter(v => key matches && v.id !== trigger.id && quantity !== newQuantity)
StrictFilter(candidates, trigger, newQuantity) ==
  {v \in candidates : /\ syncKeyOf[v] = syncKeyOf[trigger]
                      /\ v # trigger
                      /\ qty[v] # newQuantity}

\* siblingsToUpdate, each with the quantity the search read
SiblingsToUpdate(trigger, newQuantity) ==
  LET keep == StrictFilter(SearchCandidates(trigger), trigger, newQuantity)
      ids == FilterSeq(VariantOrder, keep)
  IN [i \in 1..Len(ids) |-> [id |-> ids[i], q |-> qty[ids[i]]]]

\* mutation: the target quantity is sent as the delta
AbsoluteDelta(newQuantity, sibling) == newQuantity

\* const delta = newQuantity - sibling.inventoryQuantity
Delta(newQuantity, sibling) == newQuantity - sibling.q

\* mutation: block B without its stock check
AlwaysNotifies(rec) == [rec EXCEPT !.pc = "lrange"]

\* LOGIC BLOCK B entry: if (!available || available <= 0) return 200
AfterSync(rec) ==
  IF rec.ev.available > 0 THEN [rec EXCEPT !.pc = "lrange"] ELSE Respond(rec, 200)

\* syncSiblingInventory returned normally
SyncReturned(rec) == AfterSync([rec EXCEPT !.synced = TRUE])

\* ------------------------------------------------------------- inventory handler
Variant(rec) == rec.ev.item

\* mutation: the signature is not looked at and the delivery goes on to the waitlist
Admitted(e) == [Idle EXCEPT !.ev = e, !.forged = TRUE, !.pc = "lrange"]

\* if (hmac !== hash) return res.status(401).send('Unauthorized')
Rejected(e) == Respond([Idle EXCEPT !.ev = e, !.forged = TRUE], 401)

\* A delivery whose x-shopify-hmac-sha256 header is not the keyed hash of the body.
Unauthorized(s, e) ==
  /\ Free(h, s)
  /\ nDeliveries < caps.deliveries
  /\ h' = [h EXCEPT ![s] = Rejected(e)]
  /\ nDeliveries' = nDeliveries + 1
  /\ UNCHANGED <<ordVars, rev, caps, syncKeyOf, titleOf, qty, waitlist, pending, req,
                 lastTrigger, lastClean, nStockChanges, nRequests>>

\* reading the raw body or computing the hash throws: the first catch block
\* answers 400 'Invalid webhook payload'; the platform keeps the event for a retry
BodyFails(s, e) ==
  /\ Free(h, s)
  /\ nDeliveries < caps.deliveries
  /\ h' = [h EXCEPT ![s] = Respond([Idle EXCEPT !.ev = e], 400)]
  /\ nDeliveries' = nDeliveries + 1
  /\ UNCHANGED <<ordVars, rev, caps, syncKeyOf, titleOf, qty, waitlist, pending, req,
                 lastTrigger, lastClean, nStockChanges, nRequests>>

\* mutation: block A without its location test
EnteredAnyLocation(rec) ==
  IF syncKeyOf[Variant(rec)] # NoKey THEN [rec EXCEPT !.pc = "search"] ELSE SyncReturned(rec)

\* where a verified delivery of the current revision stands once the variant is fetched
Entered(rec) ==
  IF rec.ev.loc # NoLocation
  THEN IF syncKeyOf[Variant(rec)] # NoKey
       THEN [rec EXCEPT !.pc = "search"]      \* syncSiblingInventory goes on to the search
       ELSE SyncReturned(rec)                 \* if (!syncKey) return
  ELSE AfterSync(rec)                         \* "Webhook missing location_id, skipping sync logic."

\* where a verified delivery of the legacy revision stands once the variant is fetched
EnteredLegacy(rec) == [rec EXCEPT !.pc = "lrange"]

Fresh(e) ==
  [Idle EXCEPT !.ev = e, !.clean = TRUE, !.replay = (lastClean.ev = e),
               !.first = IF lastClean.ev = e THEN lastClean.adjusts ELSE {}]

\* a specification that follows a cascade for as long as it lasts puts no cap on deliveries
Uncounted == "uncounted" \in DOMAIN caps

\* current revision: verification, JSON.parse, getVariantDataByInventoryItemId, block A entry
Start(s, e, again) ==
  /\ rev = "sync"
  /\ Free(h, s)
  /\ Uncounted \/ nDeliveries < caps.deliveries
  /\ LET rec == Entered(Fresh(e))
     IN /\ h' = [h EXCEPT ![s] = rec]
        /\ lastClean' = IF rec.pc = "done" THEN CleanEvent(rec) ELSE lastClean
  /\ lastTrigger' = IF e.loc # NoLocation /\ syncKeyOf[e.item] # NoKey THEN e ELSE lastTrigger
  /\ pending' = IF again THEN pending ELSE pending \ {e}
  /\ nDeliveries' = IF Uncounted THEN nDeliveries ELSE nDeliveries + 1
  /\ UNCHANGED <<ordVars, rev, caps, syncKeyOf, titleOf, qty, waitlist, req,
                 nStockChanges, nRequests>>

\* legacy revision: verification, JSON.parse, the stock check, the variant lookup
StartLegacy(s, e, again) ==
  /\ rev = "legacy"
  /\ Free(h, s)
  /\ nDeliveries < caps.deliveries
  /\ LET rec == IF e.available > 0 THEN EnteredLegacy(Fresh(e)) ELSE Respond(Fresh(e), 200)
     IN /\ h' = [h EXCEPT ![s] = rec]
        /\ lastClean' = IF rec.pc = "done" THEN CleanEvent(rec) ELSE lastClean
  /\ pending' = IF again THEN pending ELSE pending \ {e}
  /\ nDeliveries' = nDeliveries + 1
  /\ UNCHANGED <<ordVars, rev, caps, syncKeyOf, titleOf, qty, waitlist, req, lastTrigger,
                 nStockChanges, nRequests>>

\* the variant lookup rejects: the catch block answers 500
FetchFails(s, e) ==
  /\ rev = "sync" \/ e.available > 0
  /\ Free(h, s)
  /\ nDeliveries < caps.deliveries
  /\ h' = [h EXCEPT ![s] = Caught(Fresh(e))]
  /\ lastClean' = NoClean
  /\ nDeliveries' = nDeliveries + 1
  /\ UNCHANGED <<ordVars, rev, caps, syncKeyOf, titleOf, qty, waitlist, pending, req, lastTrigger,
                 nStockChanges, nRequests>>

\* signed inventory deliveries that are not well-formed events: an empty body, a
\* body that is no JSON, a JSON body without inventory_item_id
Garbled == "garbled"
EmptyBody == "empty"
NoItemId == "no-id"
OddEvents ==
  {[item |-> EmptyBody, loc |-> NoLocation, available |-> 0],
   [item |-> Garbled, loc |-> NoLocation, available |-> 0],
   [item |-> NoItemId, loc |-> "L1", available |-> 1]}

OddEvent(e) ==
  /\ nStockChanges < caps.stock
  /\ pending' = pending \cup {e}
  /\ nStockChanges' = nStockChanges + 1
  /\ UNCHANGED <<ordVars, rev, caps, syncKeyOf, titleOf, qty, waitlist, h, req,
                 lastTrigger, lastClean, nDeliveries, nRequests>>

\* the status such a delivery is answered with.  Current revision: an empty body is
\* answered 200 before JSON.parse; legacy revision: JSON.parse('') throws.  A body
\* that is no JSON throws in both.  Without inventory_item_id the lookup is made for
\* gid://shopify/InventoryItem/undefined, and the catalog either answers with an
\* errors list (the client throws) or with no variant ('Variant not found', 200).
OddStatus(revision, e, errors) ==
  IF e.item = EmptyBody THEN (IF revision = "sync" THEN 200 ELSE 500)
  ELSE IF e.item = Garbled THEN 500
  ELSE IF errors THEN 500 ELSE 200

StartOdd(s, e, errors) ==
  /\ e \in OddEvents
  /\ Free(h, s)
  /\ nDeliveries < caps.deliveries
  /\ LET rec == Respond(Fresh(e), OddStatus(rev, e, errors))
     IN /\ h' = [h EXCEPT ![s] = rec]
        /\ lastClean' = CleanEvent(rec)
        /\ pending' = (pending \ {e}) \cup Retried(rec)
  /\ nDeliveries' = nDeliveries + 1
  /\ UNCHANGED <<ordVars, rev, caps, syncKeyOf, titleOf, qty, waitlist, req, lastTrigger,
                 nStockChanges, nRequests>>

\* a handler step that touches neither the catalog nor the store
Local(s, rec) ==
  /\ h' = [h EXCEPT ![s] = rec]
  /\ lastClean' = IF rec.pc = "done" THEN CleanEvent(rec) ELSE lastClean
  /\ pending' = pending \cup Retried(rec)
  /\ UNCHANGED <<ordVars, rev, caps, syncKeyOf, titleOf, qty, waitlist, req,
                 lastTrigger, nStockChanges, nDeliveries, nRequests>>

\* the broad title search and the strict filter
Searched(rec) ==
  LET ups == SiblingsToUpdate(Variant(rec), rec.ev.available)
  IN IF ups = <<>> THEN SyncReturned(rec)
     ELSE [rec EXCEPT !.pc = "adjust", !.updates = ups]

Search(s) ==
  /\ h[s].pc = "search"
  /\ Local(s, Searched(h[s]))

SearchFails(s) ==
  /\ h[s].pc = "search"
  /\ Local(s, Caught(h[s]))

\* the loop body is done for the first sibling left: on to the next, or return
Advanced(rec) ==
  LET sib == Head(rec.updates)
      rec1 == [rec EXCEPT !.adjusts = @ \cup {[id |-> sib.id, delta |-> Delta(rec.ev.available, sib)]},
                          !.updates = Tail(@)]
  IN IF rec1.updates = <<>> THEN SyncReturned(rec1) ELSE rec1

\* inventoryAdjustQuantities applied by the catalog, which emits the sibling's own event
Adjust(s) ==
  /\ h[s].pc = "adjust"
  /\ LET sib == Head(h[s].updates)
         new == qty[sib.id] + Delta(h[s].ev.available, sib)
         rec == Advanced(h[s])
     IN /\ qty' = [qty EXCEPT ![sib.id] = new]
        /\ pending' = pending \cup {[item |-> sib.id, loc |-> h[s].ev.loc, available |-> new]}
        /\ h' = Disturb([h EXCEPT ![s] = rec], s)
        /\ lastClean' = CleanEvent(rec)
  /\ UNCHANGED <<ordVars, rev, caps, syncKeyOf, titleOf, waitlist, req, lastTrigger,
                 nStockChanges, nDeliveries, nRequests>>

\* the mutation is answered with userErrors: nothing is applied, nothing is thrown,
\* the return value is not looked at and the loop goes on
AdjustRejected(s) ==
  /\ h[s].pc = "adjust"
  /\ Local(s, [Advanced(h[s]) EXCEPT !.rejected = @ \cup {Head(h[s].updates).id}])

\* the mutation rejects (transport failure or a top-level errors list): the throw
\* leaves the loop and the catch block answers 500
AdjustFails(s) ==
  /\ h[s].pc = "adjust"
  /\ Local(s, Caught(h[s]))

\* ------------------------------------------------------------- Waitlist Notifier
\* const uniqueEmails = [...new Set(emails)]
UniqueEmails(rec) == Dedup(rec.emails)

\* const emails = await redis.lrange(redisKey, 0, -1); if (emails.length === 0) return 200
Read(rec, emails) ==
  IF Len(emails) = 0 THEN Respond(rec, 200)
  ELSE [rec EXCEPT !.pc = "send", !.emails = emails]

\* another invocation has read the list of the same variant and not yet deleted it
Overlaps(hh, s) ==
  \E t \in Slots \ {s} : /\ hh[t].pc \in {"send", "del"}
                         /\ Variant(hh[t]) = Variant(hh[s])

Lrange(s) ==
  /\ h[s].pc = "lrange"
  /\ Local(s, [Read(h[s], waitlist[Variant(h[s])]) EXCEPT !.raced = Overlaps(h, s)])

LrangeFails(s) ==
  /\ h[s].pc = "lrange"
  /\ Local(s, Caught(h[s]))

\* current revision: await resend.emails.send({to: uniqueEmails, ...}) resolved
Sent(rec) ==
  [rec EXCEPT !.pc = "del", !.sendCalls = @ + 1, !.sends = @ \cup {Range(UniqueEmails(rec))},
              !.notified = Range(UniqueEmails(rec)), !.sendOk = TRUE]

\* mutation: a rejected send is swallowed and the handler goes on to the delete
SendSwallowed(rec) ==
  [rec EXCEPT !.pc = "del", !.sendCalls = @ + 1, !.sends = @ \cup {Range(UniqueEmails(rec))},
              !.sendFailed = TRUE]

\* current revision: the send rejected, the catch block answers 500
SendRejected(rec) ==
  Caught([rec EXCEPT !.sendCalls = @ + 1, !.sends = @ \cup {Range(UniqueEmails(rec))},
                     !.sendFailed = TRUE])

Send(s) ==
  /\ rev = "sync"
  /\ h[s].pc = "send"
  /\ Local(s, Sent(h[s]))

SendFails(s) ==
  /\ rev = "sync"
  /\ h[s].pc = "send"
  /\ Local(s, SendRejected(h[s]))

\* legacy revision: uniqueEmails.map(email => resend.emails.send({to: email, ...})),
\* await Promise.all(...): one call per recipient, all of them resolved
SentEach(rec) ==
  [rec EXCEPT !.pc = "del", !.sendCalls = @ + Len(UniqueEmails(rec)),
              !.sends = @ \cup {{e} : e \in Range(UniqueEmails(rec))},
              !.notified = Range(UniqueEmails(rec)), !.sendOk = TRUE]

\* legacy revision: the calls to `ok` resolved and at least one other rejected
SentSome(rec, ok) ==
  Caught([rec EXCEPT !.sendCalls = @ + Len(UniqueEmails(rec)),
                     !.sends = @ \cup {{e} : e \in Range(UniqueEmails(rec))},
                     !.notified = ok, !.sendFailed = TRUE])

LegacySend(s) ==
  /\ rev = "legacy"
  /\ h[s].pc = "send"
  /\ Local(s, SentEach(h[s]))

LegacySendFails(s, ok) ==
  /\ rev = "legacy"
  /\ h[s].pc = "send"
  /\ ok \subseteq Range(UniqueEmails(h[s]))
  /\ ok # Range(UniqueEmails(h[s]))
  /\ Local(s, SentSome(h[s], ok))

\* mutation: the delete leaves the list in place
KeepKey(store, v) == store

\* await redis.del(redisKey)
DeleteKey(store, v) == [store EXCEPT ![v] = <<>>]

Del(s) ==
  /\ h[s].pc = "del"
  /\ waitlist' = DeleteKey(waitlist, Variant(h[s]))
  /\ LET rec == Respond([h[s] EXCEPT !.delDone = TRUE], 200)
     IN /\ h' = [h EXCEPT ![s] = rec]
        /\ lastClean' = CleanEvent(rec)
  /\ UNCHANGED <<ordVars, rev, caps, syncKeyOf, titleOf, qty, pending, req, lastTrigger,
                 nStockChanges, nDeliveries, nRequests>>

DelFails(s) ==
  /\ h[s].pc = "del"
  /\ Local(s, Caught(h[s]))

\* ------------------------------------------------------------- request-notification
ReqIdle == [pc |-> "idle", email |-> "none", variant |-> "none", status |-> 0, ownerSent |-> FALSE]

ReqStep(r) ==
  /\ req' = r
  /\ UNCHANGED <<ordVars, rev, caps, syncKeyOf, titleOf, qty, waitlist, pending, h,
                 lastTrigger, lastClean, nStockChanges, nDeliveries>>

\* if (!email || !variantId || ...) return res.status(400)
ReqInvalid ==
  /\ req.pc \in {"idle", "done"}
  /\ nRequests < caps.requests
  /\ nRequests' = nRequests + 1
  /\ ReqStep([ReqIdle EXCEPT !.pc = "done", !.status = 400])

ReqStart(e, v) ==
  /\ req.pc \in {"idle", "done"}
  /\ nRequests < caps.requests
  /\ nRequests' = nRequests + 1
  /\ ReqStep([ReqIdle EXCEPT !.pc = "owner", !.email = e, !.variant = v])

\* 1. Send immediate notification to the owner
ReqOwnerSent ==
  /\ req.pc = "owner"
  /\ UNCHANGED nRequests
  /\ ReqStep([req EXCEPT !.pc = "push", !.ownerSent = TRUE])

\* mutation: a rejected owner email is swallowed and the request goes on to the push
OwnerSwallowed(r) == [r EXCEPT !.pc = "push"]

\* the owner email rejects: catch (error) -> 500
OwnerRejected(r) == [r EXCEPT !.pc = "done", !.status = 500]

ReqOwnerFails ==
  /\ req.pc = "owner"
  /\ UNCHANGED nRequests
  /\ ReqStep(OwnerRejected(req))

\* await redis.lpush(redisKey, email)
Lpush(store, v, e) == [store EXCEPT ![v] = <<e>> \o @]

ReqPush ==
  /\ req.pc = "push"
  /\ waitlist' = Lpush(waitlist, req.variant, req.email)
  /\ req' = [req EXCEPT !.pc = "done", !.status = 200]
  /\ UNCHANGED <<ordVars, rev, caps, syncKeyOf, titleOf, qty, pending, h,
                 lastTrigger, lastClean, nStockChanges, nDeliveries, nRequests>>

ReqPushFails ==
  /\ req.pc = "push"
  /\ UNCHANGED nRequests
  /\ ReqStep([req EXCEPT !.pc = "done", !.status = 500])

\* ------------------------------------------------------------- spoke catalog
\* products(first: 250, query: "tag:'component:spoke'"), in the order the catalog answers
Spokes == <<"S2", "S1", "S3", "S4", "S5">>
SkuOrder == <<"S1", "S2", "S3", "S4", "S5">>
OrderSkus == {"S1", "S2"}
NonSpoke == "N1"
\* an order with two line items, one of each ordered spoke
Basket == "S1+S2"
\* an order payload without line_items
NoLineItems == "missing"
\* const topic = req.headers['x-shopify-topic']: the topics the router knows, and
\* the name under which the manual test enters handleOrderCreate
RoutedTopics == {"orders/create", "orders/cancelled", "manual"}
\* deliveries that are not well-formed orders: another topic, no line_items, no JSON
OddOrders ==
  {[topic |-> "products/update", sku |-> "none"],
   [topic |-> "orders/create", sku |-> NoLineItems],
   [topic |-> "orders/create", sku |-> Garbled]}
ProductOf == [k \in Range(Spokes) |-> IF k \in {"S1", "S2"} THEN "P1" ELSE IF k = "S3" THEN "P2" ELSE "P3"]
NoValue == "unset"
\* custom.inventory_monitoring_enabled of each product
MonitoringEnabled == [p \in {"P1", "P2", "P3"} |-> IF p = "P2" THEN NoValue ELSE "true"]
\* custom.inventory_alert_threshold of each variant (current revision)
VariantThreshold == [k \in Range(Spokes) |-> IF k = "S5" THEN NoValue ELSE "1"]
\* custom.inventory_alert_threshold of each product (legacy revision)
ProductThreshold == [p \in {"P1", "P2", "P3"} |-> IF p = "P3" THEN "0" ELSE "1"]
\* variant.title.endsWith(' / -')
Placeholder == [k \in Range(Spokes) |-> k = "S4"]

OrderRevisions == {"router", "legacy"}
OSlots == {"o1", "o2"}
NoCount == -1
NoSnapshot == [present |-> FALSE, skus |-> <<>>]
NoReport == [sent |-> FALSE, skus |-> {}, fresh |-> FALSE]
NoOrder == [topic |-> "none", sku |-> "none"]
ManualTest == [topic |-> "manual", sku |-> "none"]

\* values custom.inventory_alert_threshold may hold
ThresholdValues == {NoValue, "0", "1", "5", "-2"}

\* parseInt(value || '0', 10)
ParseThreshold(value) ==
  CASE value = "1" -> 1
    [] value = "5" -> 5
    [] value = "-2" -> -2
    [] OTHER -> 0

\* legacy revisions: parseInt((value || '0').replace(/\D/g, ''), 10)
ParseDigits(value) ==
  CASE value = "1" -> 1
    [] value = "5" -> 5
    [] value = "-2" -> 2
    [] OTHER -> 0

\* Array.prototype.sort() on SKUs: insertion by the position in SkuOrder
Rank(k) == CHOOSE i \in 1..Len(SkuOrder) : SkuOrder[i] = k

RECURSIVE Insert(_, _)
Insert(k, sorted) ==
  IF sorted = <<>> THEN <<k>>
  ELSE IF Rank(k) <= Rank(Head(sorted)) THEN <<k>> \o sorted
  ELSE <<Head(sorted)>> \o Insert(k, Tail(sorted))

RECURSIVE SortSkus(_)
SortSkus(list) == IF list = <<>> THEN <<>> ELSE Insert(Head(list), SortSkus(Tail(list)))

\* the scan loop of the current revision: monitored product, no placeholder
\* variant, a variant threshold above 0, quantity below it
\* mutation: the comparison admits a quantity equal to the threshold
LowOrEqual(monitoring, placeholder, threshold, quantity) ==
  /\ monitoring = "true"
  /\ ~placeholder
  /\ ~(ParseThreshold(threshold) <= 0)
  /\ quantity <= ParseThreshold(threshold)

LowVariant(monitoring, placeholder, threshold, quantity) ==
  /\ monitoring = "true"
  /\ ~placeholder
  /\ ~(ParseThreshold(threshold) <= 0)
  /\ quantity < ParseThreshold(threshold)

IsLow(k, stock) ==
  LowVariant(MonitoringEnabled[ProductOf[k]], Placeholder[k], VariantThreshold[k], stock[k])

\* the scan loop of the legacy revision: monitored product, quantity below the product threshold
IsLowLegacy(k, stock) ==
  /\ MonitoringEnabled[ProductOf[k]] = "true"
  /\ stock[k] < ParseDigits(ProductThreshold[ProductOf[k]])

\* the body of the scan loop run on the probed variant
NoProbe == [monitoring |-> NoValue, placeholder |-> FALSE, threshold |-> NoValue,
            quantity |-> 0, scanned |-> FALSE, low |-> FALSE]

ScanVariant ==
  /\ ~probe.scanned
  /\ probe' = [probe EXCEPT !.scanned = TRUE,
                            !.low = LowVariant(probe.monitoring, probe.placeholder,
                                               probe.threshold, probe.quantity)]
  /\ UNCHANGED <<invVars, alert, orev, spokeQty, ledger, snapshot, opending, o, reports,
                 lastReport, nOrders, nRestocks, nOrderDeliveries>>

\* currentLowStockItems (their SKUs), in scan order
RECURSIVE LowStockItems(_, _, _)
LowStockItems(list, stock, revision) ==
  IF list = <<>> THEN <<>>
  ELSE LET k == Head(list)
           rest == LowStockItems(Tail(list), stock, revision)
       IN IF (revision = "router" /\ IsLow(k, stock)) \/ (revision = "legacy" /\ IsLowLegacy(k, stock))
          THEN <<k>> \o rest ELSE rest

\* mutation: the SKU list left in scan order
UnsortedSKUs(rec) == rec.low

\* const currentLowStockSKUs = currentLowStockItems.map(item => item.sku).sort()
CurrentLowStockSKUs(rec) == SortSkus(rec.low)

\* previousReportJSON ? JSON.parse(previousReportJSON) : []
PreviousLowStockSKUs(stored) == IF stored.present THEN stored.skus ELSE <<>>

\* ------------------------------------------------------------- order platform
\* the spokes an order takes from stock
Ordered(k) == IF k = Basket THEN OrderSkus ELSE IF k \in OrderSkus THEN {k} ELSE {}

PlaceOrder(k) ==
  /\ nOrders < caps.orders
  /\ \A x \in Ordered(k) : spokeQty[x] > 0
  /\ spokeQty' = [x \in DOMAIN spokeQty |-> IF x \in Ordered(k) THEN spokeQty[x] - 1 ELSE spokeQty[x]]
  /\ opending' = opending \cup {[topic |-> "orders/create", sku |-> k]}
  /\ nOrders' = nOrders + 1
  /\ UNCHANGED <<invVars, probe, alert, orev, ledger, snapshot, o, reports, lastReport, nRestocks,
                 nOrderDeliveries>>

\* an order placed earlier is cancelled (the legacy revision is subscribed to orders/create only)
CancelOrder(k) ==
  /\ orev = "router"
  /\ nOrders < caps.orders
  /\ opending' = opending \cup {[topic |-> "orders/cancelled", sku |-> k]}
  /\ nOrders' = nOrders + 1
  /\ UNCHANGED <<invVars, probe, alert, orev, spokeQty, ledger, snapshot, o, reports, lastReport,
                 nRestocks, nOrderDeliveries>>

\* the platform (or whoever holds the webhook secret) posts a signed request that is
\* not a well-formed order; the legacy revision is subscribed to orders/create only
OddOrder(e) ==
  /\ nOrders < caps.orders
  /\ e.topic \in RoutedTopics \/ orev = "router"
  /\ opending' = opending \cup {e}
  /\ nOrders' = nOrders + 1
  /\ UNCHANGED <<invVars, probe, alert, orev, spokeQty, ledger, snapshot, o, reports, lastReport,
                 nRestocks, nOrderDeliveries>>

\* the cooldown window that began with the report sent last is over
CooldownElapses ==
  /\ lastReport.fresh
  /\ lastReport' = [lastReport EXCEPT !.fresh = FALSE]
  /\ UNCHANGED <<invVars, probe, alert, orev, spokeQty, ledger, snapshot, opending, o, reports,
                 nOrders, nRestocks, nOrderDeliveries>>

Restock(k) ==
  /\ nRestocks < caps.restocks
  /\ spokeQty[k] < MaxStock
  /\ spokeQty' = [spokeQty EXCEPT ![k] = MaxStock]
  /\ nRestocks' = nRestocks + 1
  /\ UNCHANGED <<invVars, probe, alert, orev, ledger, snapshot, opending, o, reports, lastReport,
                 nOrders, nOrderDeliveries>>

\* ------------------------------------------------------------- order handler
OIdle ==
  [pc |-> "idle", ev |-> NoOrder, items |-> <<>>, cur |-> 0, low |-> <<>>, prev |-> <<>>,
   got |-> FALSE, sends |-> 0, sendOk |-> FALSE, writes |-> <<>>, status |-> 0,
   forged |-> FALSE]

OBusy(rec) == rec.pc \notin {"idle", "done"}

\* a new invocation takes the first slot that is not in use
OFree(oo, s) == /\ ~OBusy(oo[s])
                /\ s = "o2" => (caps.ooverlap /\ OBusy(oo["o1"]))

ORespond(rec, code) == [rec EXCEPT !.pc = "done", !.status = code, !.items = <<>>, !.cur = 0]

\* the catch block answers 500; a throw during the manual test is swallowed by the
\* first try block, and the webhook logic below it then finds no valid HMAC
OCaught(rec) == IF rec.ev = ManualTest THEN ORespond(rec, 401) ELSE ORespond(rec, 500)

\* the platform delivers again a webhook that was answered 500
ORetried(rec) == IF rec.pc = "done" /\ rec.status = 500 THEN {rec.ev} ELSE {}

OLocal(s, rec) ==
  /\ o' = [o EXCEPT ![s] = rec]
  /\ opending' = opending \cup ORetried(rec)
  /\ UNCHANGED <<invVars, probe, alert, orev, spokeQty, ledger, snapshot, reports, lastReport,
                 nOrders, nRestocks, nOrderDeliveries>>

\* line_items of the payload; updateHistoricalCounts skips an item without variant_id or sku
LineItems(e) ==
  IF e.sku \in {"none", Garbled, NoLineItems} THEN <<>>
  ELSE IF e.sku = Basket
       THEN <<[sku |-> "S1", quantity |-> 1], [sku |-> "S2", quantity |-> 1]>>
       ELSE <<[sku |-> e.sku, quantity |-> 1]>>

\* handleOrderCreate goes on to the scan, handleOrderCancelled returns
AfterCounts(rec) ==
  IF rec.ev.topic = "orders/cancelled" THEN ORespond(rec, 200) ELSE [rec EXCEPT !.pc = "scan"]

\* mutation: the router without its else branch, every topic handled as orders/create
RoutedAsCreate(e) ==
  LET rec == [OIdle EXCEPT !.ev = e, !.items = LineItems(e)]
  IN IF e.sku \in {Garbled, NoLineItems} THEN OCaught(rec)
     ELSE IF rec.items = <<>> THEN AfterCounts(rec) ELSE [rec EXCEPT !.pc = "read"]

\* the router, up to the first await of updateHistoricalCounts: JSON.parse throws on
\* a body that is no JSON, a topic other than the two is logged and answered 200,
\* and `for (const item of undefined)` throws when the payload has no line_items
Routed(e) ==
  LET rec == [OIdle EXCEPT !.ev = e, !.items = LineItems(e)]
  IN IF e.sku = Garbled THEN OCaught(rec)
     ELSE IF e.topic \notin RoutedTopics THEN ORespond(rec, 200)
     ELSE IF e.sku = NoLineItems THEN OCaught(rec)
     ELSE IF rec.items = <<>> THEN AfterCounts(rec) ELSE [rec EXCEPT !.pc = "read"]

\* legacy revision: const containsSpokes = line_items.some(item => item.product_type === 'Spoke'),
\* behind JSON.parse, both of which throw on a body without line_items
RoutedLegacy(e) ==
  LET rec == [OIdle EXCEPT !.ev = e]
  IN IF e.sku \in {Garbled, NoLineItems} THEN OCaught(rec)
     ELSE IF e.sku = NonSpoke THEN ORespond(rec, 200) ELSE [rec EXCEPT !.pc = "scan"]

Begin(s, rec, left) ==
  /\ OFree(o, s)
  /\ nOrderDeliveries < caps.odeliveries
  /\ o' = [o EXCEPT ![s] = rec]
  /\ opending' = left
  /\ nOrderDeliveries' = nOrderDeliveries + 1
  /\ UNCHANGED <<invVars, probe, alert, orev, spokeQty, ledger, snapshot, reports, lastReport,
                 nOrders, nRestocks>>

\* mutation: neither the secret nor the signature is looked at and the request goes on
\* to the reconciliation
OAdmitted(e) == [OIdle EXCEPT !.ev = e, !.forged = TRUE, !.pc = "scan"]

\* if (generatedHash !== hmac) return res.status(401), and the same answer to a
\* manual test with a wrong secret
ORejected(e) == ORespond([OIdle EXCEPT !.ev = e, !.forged = TRUE], 401)

\* generatedHash !== hmac, or a manual test with a wrong secret
OrderUnauthorized(s, e) == Begin(s, ORejected(e), opending)

OrderStart(s, e, again) ==
  /\ orev = "router"
  /\ Begin(s, Routed(e), (IF again THEN opending ELSE opending \ {e}) \cup ORetried(Routed(e)))

\* ?test_mode=true&secret=MANUAL_TEST_SECRET: handleOrderCreate({ line_items: [] })
ManualStart(s) ==
  /\ orev = "router"
  /\ Begin(s, Routed(ManualTest), opending)

OrderStartLegacy(s, e, again) ==
  /\ orev = "legacy"
  /\ e.topic = "orders/create"
  /\ Begin(s, RoutedLegacy(e),
           (IF again THEN opending ELSE opending \ {e}) \cup ORetried(RoutedLegacy(e)))

\* const currentCount = metafield ? parseInt(metafield.value, 10) : 0
CurrentCount(counts, k) == IF counts[k] = NoCount THEN 0 ELSE counts[k]

\* mutation: the decrement without Math.max
Unclamped(topic, currentCount, quantity) ==
  IF topic = "orders/cancelled" THEN currentCount - quantity ELSE currentCount + quantity

\* direction === 'increment' ? currentCount + quantity : Math.max(0, currentCount - quantity)
NewCount(topic, currentCount, quantity) ==
  IF topic = "orders/cancelled"
  THEN IF currentCount - quantity < 0 THEN 0 ELSE currentCount - quantity
  ELSE currentCount + quantity

ReadCount(s) ==
  /\ o[s].pc = "read"
  /\ OLocal(s, [o[s] EXCEPT !.pc = "write", !.cur = CurrentCount(ledger, Head(o[s].items).sku)])

ReadCountFails(s) ==
  /\ o[s].pc = "read"
  /\ OLocal(s, OCaught(o[s]))

\* metafieldsSet, then on to the next line item
Counted(rec) ==
  LET rec1 == [rec EXCEPT !.items = Tail(@), !.cur = 0]
  IN IF rec1.items = <<>> THEN AfterCounts(rec1) ELSE [rec1 EXCEPT !.pc = "read"]

WriteCount(s) ==
  /\ o[s].pc = "write"
  /\ LET item == Head(o[s].items)
     IN ledger' = [ledger EXCEPT ![item.sku] = NewCount(o[s].ev.topic, o[s].cur, item.quantity)]
  /\ o' = [o EXCEPT ![s] = Counted(o[s])]
  /\ UNCHANGED <<invVars, probe, alert, orev, spokeQty, snapshot, opending, reports, lastReport,
                 nOrders, nRestocks, nOrderDeliveries>>

WriteCountFails(s) ==
  /\ o[s].pc = "write"
  /\ OLocal(s, OCaught(o[s]))

\* the full scan of the spoke products
Scan(s) ==
  /\ o[s].pc = "scan"
  /\ OLocal(s, [o[s] EXCEPT !.pc = "get", !.low = LowStockItems(Spokes, spokeQty, orev)])

\* mutation: a rejected scan is swallowed and the comparison runs on an empty list
ScanSwallowed(rec) == [rec EXCEPT !.pc = "get", !.low = <<>>]

\* the products query rejected: nothing is caught before the handler's catch block
ScanRejected(rec) == OCaught(rec)

ScanFails(s) ==
  /\ o[s].pc = "scan"
  /\ OLocal(s, ScanRejected(o[s]))

\* JSON.stringify(previousLowStockSKUs.sort()) === JSON.stringify(currentLowStockSKUs)
Unchanged(previous, current) == SortSkus(previous) = current

\* mutation: a changed list is stored without a report
ChangedUnreported(rec, revision) ==
  IF revision = "legacy" /\ Len(rec.low) = 0 THEN [rec EXCEPT !.pc = "del"] ELSE [rec EXCEPT !.pc = "set"]

\* mutation: every change is reported, a recovery included
ChangedReported(rec, revision) == [rec EXCEPT !.pc = "send"]

\* where the handler stands once the comparison found a change
Changed(rec, revision) ==
  IF revision = "legacy"
  THEN IF Len(rec.low) = 0 THEN [rec EXCEPT !.pc = "del"] ELSE [rec EXCEPT !.pc = "send"]
  ELSE IF Len(rec.low) > 0 THEN [rec EXCEPT !.pc = "send"] ELSE [rec EXCEPT !.pc = "set"]

\* redis.get('last_report_list_json') and the comparison
Compared(rec, stored, revision) ==
  LET rec1 == [rec EXCEPT !.prev = PreviousLowStockSKUs(stored), !.got = TRUE]
  IN IF Unchanged(rec1.prev, CurrentLowStockSKUs(rec1))
     THEN ORespond(rec1, 200)
     ELSE Changed(rec1, revision)

Get(s) ==
  /\ o[s].pc = "get"
  /\ OLocal(s, Compared(o[s], snapshot, orev))

GetFails(s) ==
  /\ o[s].pc = "get"
  /\ OLocal(s, OCaught(o[s]))

\* resend.emails.send resolved
ReportSent(rec) == [rec EXCEPT !.pc = "set", !.sends = @ + 1, !.sendOk = TRUE]

\* mutation: a rejected report send is swallowed and the handler goes on to the write
ReportSwallowed(rec) == [rec EXCEPT !.pc = "set"]

\* resend.emails.send rejected
ReportRejected(rec) == OCaught(rec)

SendReport(s) ==
  /\ o[s].pc = "send"
  /\ o' = [o EXCEPT ![s] = ReportSent(o[s])]
  /\ reports' = reports \cup {Range(o[s].low)}
  /\ lastReport' = [sent |-> TRUE, skus |-> Range(o[s].low), fresh |-> TRUE]
  /\ UNCHANGED <<invVars, probe, alert, orev, spokeQty, ledger, snapshot, opending,
                 nOrders, nRestocks, nOrderDeliveries>>

SendReportFails(s) ==
  /\ o[s].pc = "send"
  /\ OLocal(s, ReportRejected(o[s]))

\* JSON.stringify(currentLowStockSKUs), as the store then holds it
Stored(rec) == [present |-> TRUE, skus |-> CurrentLowStockSKUs(rec)]

SetSnapshot(s) ==
  /\ o[s].pc = "set"
  /\ snapshot' = Stored(o[s])
  /\ o' = [o EXCEPT ![s] = ORespond([o[s] EXCEPT !.writes = Append(@, "set")], 200)]
  /\ UNCHANGED <<invVars, probe, alert, orev, spokeQty, ledger, opending, reports, lastReport,
                 nOrders, nRestocks, nOrderDeliveries>>

SetSnapshotFails(s) ==
  /\ o[s].pc = "set"
  /\ OLocal(s, OCaught(o[s]))

\* legacy revision: await redis.del('last_report_list_json')
DelSnapshot(s) ==
  /\ o[s].pc = "del"
  /\ snapshot' = NoSnapshot
  /\ o' = [o EXCEPT ![s] = ORespond([o[s] EXCEPT !.writes = Append(@, "del")], 200)]
  /\ UNCHANGED <<invVars, probe, alert, orev, spokeQty, ledger, opending, reports, lastReport,
                 nOrders, nRestocks, nOrderDeliveries>>

DelSnapshotFails(s) ==
  /\ o[s].pc = "del"
  /\ OLocal(s, OCaught(o[s]))

\* ------------------------------------------------- per-variant alert handler
\* the alert handler of api/index (one email per variant that fell to its threshold)

AlertVariants == {"V1", "V2"}
UnknownItem == "unknown"

\* what the catalog client may hand over as custom.inventory_monitoring_enabled
BoolTrue == "boolean true"
MonitoringValues == {BoolTrue, "true", NoValue}

\* parseInt(product.inventoryAlertThreshold?.value, 10) of the one product
AlertThreshold == ParseDigits("1")

AlertEvents == [item : AlertVariants \cup {UnknownItem, NoItemId}, available : 0..AlertMaxQty,
                signed : BOOLEAN]

\* const notifiedVariants = new Set() and an invocation that has not started
AlertIdle(monitoring) ==
  [notifiedVariants |-> {}, monitoring |-> monitoring, pc |-> "idle",
   ev |-> [item |-> NoItemId, available |-> 0, signed |-> FALSE],
   status |-> 0, sent |-> FALSE, seen |-> {}, n |-> 0]

\* product.inventoryMonitoringEnabled?.value === true
IsMonitoringEnabled(value) == value = BoolTrue

\* res.status(code): the delivery and what it did join the deliveries seen so far
\* (those whose remote calls were all answered)
AlertRespond(a, code) ==
  [a EXCEPT !.pc = "done", !.status = code,
            !.seen = IF code = 500 THEN @
                     ELSE @ \cup {[input |-> [ev |-> a.ev, monitoring |-> a.monitoring],
                                   outcome |-> [status |-> code, sent |-> a.sent]]}]

AlertStep(a) ==
  /\ alert' = a
  /\ UNCHANGED <<invVars, orev, spokeQty, ledger, snapshot, opending, o, reports, lastReport,
                 nOrders, nRestocks, nOrderDeliveries, probe>>

\* signature check, JSON.parse, if (!inventory_item_id) return 200, then the catalog query
AlertStart(e) ==
  /\ alert.pc \in {"idle", "done"}
  /\ alert.n < AlertDeliveries
  /\ LET a == [alert EXCEPT !.ev = e, !.n = @ + 1, !.sent = FALSE, !.status = 0]
     IN AlertStep(IF ~e.signed THEN AlertRespond(a, 401)
                  ELSE IF e.item = NoItemId THEN AlertRespond(a, 200)
                  ELSE [a EXCEPT !.pc = "lookup"])

\* the catalog answered: if (available > alertThreshold) notifiedVariants.delete(variant.id),
\* then the alert condition
AlertLookup ==
  /\ alert.pc = "lookup"
  /\ LET e == alert.ev
         kept == IF e.available > AlertThreshold THEN alert.notifiedVariants \ {e.item}
                 ELSE alert.notifiedVariants
         a == [alert EXCEPT !.notifiedVariants = kept]
     IN AlertStep(IF e.item \notin AlertVariants THEN AlertRespond(alert, 200)
                  ELSE IF /\ IsMonitoringEnabled(alert.monitoring)
                          /\ e.available <= AlertThreshold
                          /\ e.item \notin kept
                       THEN [a EXCEPT !.pc = "send"]
                       ELSE AlertRespond(a, 200))

\* await resend.emails.send(...) answered: notifiedVariants.add(variant.id), 200
AlertSend ==
  /\ alert.pc = "send"
  /\ AlertStep(AlertRespond([alert EXCEPT !.sent = TRUE,
                                          !.notifiedVariants = @ \cup {alert.ev.item}], 200))

\* the catalog query or the send rejects: catch (error) -> 500
AlertFails ==
  /\ alert.pc \in {"lookup", "send"}
  /\ AlertStep(AlertRespond(alert, 500))

\* ------------------------------------------------------------- specification
\* the order handler side of a store nothing has happened to yet
OrderStart0 ==
  /\ probe = NoProbe
  /\ alert = AlertIdle(NoValue)
  /\ spokeQty = [k \in Range(Spokes) |-> IF k \in OrderSkus THEN MaxStock ELSE 0]
  /\ ledger = [k \in OrderSkus \cup {NonSpoke} |-> NoCount]
  /\ snapshot = NoSnapshot
  /\ opending = {}
  /\ o = [s \in OSlots |-> OIdle]
  /\ reports = {}
  /\ lastReport = NoReport
  /\ nOrders = 0
  /\ nRestocks = 0
  /\ nOrderDeliveries = 0

Catalog ==
  /\ \E k \in {"K", "L", NoKey} : syncKeyOf = [v \in Variants |-> IF v = "V3" THEN k ELSE "K"]
  /\ \E t \in {"T1", "T2"} : titleOf = [v \in Variants |-> IF v = "V3" THEN t ELSE "T1"]
  /\ qty = [v \in Variants |-> 0]

Start0 ==
  /\ waitlist = [v \in Variants |-> <<>>]
  /\ pending = {}
  /\ h = [s \in Slots |-> Idle]
  /\ req = ReqIdle
  /\ lastTrigger = NoEvent
  /\ lastClean = NoClean
  /\ nStockChanges = 0
  /\ nDeliveries = 0
  /\ nRequests = 0

\* Spec: either revision of the inventory handler with the request-notification endpoint
Init ==
  /\ orev = "router"
  /\ OrderStart0
  /\ rev \in Revisions
  /\ caps = [stock |-> WaitStockChanges, deliveries |-> WaitDeliveries, requests |-> MaxRequests,
             overlap |-> TRUE, locs |-> Locations \cup {NoLocation},
             orders |-> 0, restocks |-> 0, odeliveries |-> 0, ooverlap |-> FALSE]
  /\ syncKeyOf = [v \in Variants |-> IF v = "V3" THEN NoKey ELSE "K"]
  /\ titleOf = [v \in Variants |-> "T1"]
  /\ qty = [v \in Variants |-> 0]
  /\ Start0

\* SpecSync: the current revision on a store without waitlists
InitSync ==
  /\ orev = "router"
  /\ OrderStart0
  /\ rev = "sync"
  /\ caps = [stock |-> MaxStockChanges, deliveries |-> MaxDeliveries, requests |-> 0,
             overlap |-> TRUE, locs |-> Locations \cup {NoLocation},
             orders |-> 0, restocks |-> 0, odeliveries |-> 0, ooverlap |-> FALSE]
  /\ Catalog
  /\ Start0

Platform ==
  \E v \in StockVariants, q \in 0..MaxQty, l \in caps.locs : StockChange(v, q, l)

Resolver ==
  \/ \E s \in Slots, e \in pending : Unauthorized(s, e)
  \/ \E s \in Slots, e \in pending : BodyFails(s, e)
  \/ \E s \in Slots, e \in pending, again \in BOOLEAN : Start(s, e, again)
  \/ \E s \in Slots, e \in pending : FetchFails(s, e)
  \/ \E s \in Slots : Search(s)
  \/ \E s \in Slots : SearchFails(s)
  \/ \E s \in Slots : Adjust(s)
  \/ \E s \in Slots : AdjustRejected(s)
  \/ \E s \in Slots : AdjustFails(s)
  \/ \E s \in Slots : Lrange(s)
  \/ \E s \in Slots : LrangeFails(s)

Notifier ==
  \/ \E s \in Slots, e \in pending, again \in BOOLEAN : StartLegacy(s, e, again)
  \/ \E s \in Slots : Send(s)
  \/ \E s \in Slots : SendFails(s)
  \/ \E s \in Slots : LegacySend(s)
  \/ \E s \in Slots, ok \in SUBSET Emails : LegacySendFails(s, ok)
  \/ \E s \in Slots : Del(s)
  \/ \E s \in Slots : DelFails(s)

Requests ==
  \/ ReqInvalid
  \/ \E e \in Emails, v \in RequestVariants : ReqStart(e, v)
  \/ ReqOwnerSent
  \/ ReqOwnerFails
  \/ ReqPush
  \/ ReqPushFails

Next == Platform \/ Resolver \/ Notifier \/ Requests

\* with no waitlist in the store the handler never gets past the empty lrange
NextSync == Platform \/ Resolver

\* SpecConverge: the current revision, one delivery at a time, every remote call
\* answered, every event carrying its location
InitConverge ==
  /\ orev = "router"
  /\ OrderStart0
  /\ rev = "sync"
  /\ caps = [stock |-> MaxStockChanges, deliveries |-> SeqDeliveries, requests |-> 0,
             overlap |-> FALSE, locs |-> Locations,
             orders |-> 0, restocks |-> 0, odeliveries |-> 0, ooverlap |-> FALSE]
  /\ Catalog
  /\ Start0

NextConverge ==
  \/ Platform
  \/ \E s \in Slots, e \in pending, again \in BOOLEAN : Start(s, e, again)
  \/ \E s \in Slots : Search(s)
  \/ \E s \in Slots : Adjust(s)
  \/ \E s \in Slots : Lrange(s)

Spec == Init /\ [][Next]_vars

SpecConverge == InitConverge /\ [][NextConverge]_vars

SpecSync == InitSync /\ [][NextSync]_vars

\* SpecOrder: either revision of the order handler
InitOrder ==
  /\ orev \in OrderRevisions
  /\ OrderStart0
  /\ rev = "sync"
  /\ caps = [stock |-> 0, deliveries |-> 0, requests |-> 0, overlap |-> FALSE, locs |-> {},
             orders |-> MaxOrders, restocks |-> MaxRestocks,
             odeliveries |-> MaxOrderDeliveries, ooverlap |-> TRUE]
  /\ syncKeyOf = [v \in Variants |-> NoKey]
  /\ titleOf = [v \in Variants |-> "T1"]
  /\ qty = [v \in Variants |-> 0]
  /\ Start0

Shop ==
  \/ \E k \in OrderSkus \cup {NonSpoke} : PlaceOrder(k)
  \/ \E k \in OrderSkus : CancelOrder(k)
  \/ \E k \in OrderSkus : Restock(k)
  \/ CooldownElapses

Reconciler ==
  \/ \E s \in OSlots, e \in opending \cup {ManualTest} : OrderUnauthorized(s, e)
  \/ \E s \in OSlots, e \in opending, again \in BOOLEAN : OrderStart(s, e, again)
  \/ \E s \in OSlots : ManualStart(s)
  \/ \E s \in OSlots, e \in opending, again \in BOOLEAN : OrderStartLegacy(s, e, again)
  \/ \E s \in OSlots : ReadCount(s)
  \/ \E s \in OSlots : ReadCountFails(s)
  \/ \E s \in OSlots : WriteCount(s)
  \/ \E s \in OSlots : WriteCountFails(s)
  \/ \E s \in OSlots : Scan(s)
  \/ \E s \in OSlots : ScanFails(s)
  \/ \E s \in OSlots : Get(s)
  \/ \E s \in OSlots : GetFails(s)
  \/ \E s \in OSlots : SendReport(s)
  \/ \E s \in OSlots : SendReportFails(s)
  \/ \E s \in OSlots : SetSnapshot(s)
  \/ \E s \in OSlots : SetSnapshotFails(s)
  \/ \E s \in OSlots : DelSnapshot(s)
  \/ \E s \in OSlots : DelSnapshotFails(s)

NextOrder == Shop \/ Reconciler

\* SpecLedger: the current revision of the order handler, one invocation at a
\* time, orders of one and of two line items, counter reads and writes that may fail
InitLedger ==
  /\ orev = "router"
  /\ OrderStart0
  /\ rev = "sync"
  /\ caps = [stock |-> 0, deliveries |-> 0, requests |-> 0, overlap |-> FALSE, locs |-> {},
             orders |-> LedgerOrders, restocks |-> 0,
             odeliveries |-> LedgerDeliveries, ooverlap |-> FALSE]
  /\ syncKeyOf = [v \in Variants |-> NoKey]
  /\ titleOf = [v \in Variants |-> "T1"]
  /\ qty = [v \in Variants |-> 0]
  /\ Start0

NextLedger ==
  \/ \E k \in {"S1", Basket} : PlaceOrder(k)
  \/ CancelOrder(Basket)
  \/ \E s \in OSlots, e \in opending, again \in BOOLEAN : OrderStart(s, e, again)
  \/ \E s \in OSlots : ReadCount(s)
  \/ \E s \in OSlots : ReadCountFails(s)
  \/ \E s \in OSlots : WriteCount(s)
  \/ \E s \in OSlots : WriteCountFails(s)
  \/ \E s \in OSlots : Scan(s)
  \/ \E s \in OSlots : Get(s)
  \/ \E s \in OSlots : SendReport(s)
  \/ \E s \in OSlots : SetSnapshot(s)

SpecLedger == InitLedger /\ [][NextLedger]_vars

\* SpecShapes: both revisions of both webhook handlers, one invocation of each at
\* a time, every remote call answered, with signed requests that are not well-formed
InitShapes ==
  /\ orev \in OrderRevisions
  /\ OrderStart0
  /\ rev \in Revisions
  /\ caps = [stock |-> ShapeEvents, deliveries |-> ShapeDeliveries, requests |-> 0,
             overlap |-> FALSE, locs |-> Locations,
             orders |-> ShapeEvents, restocks |-> 0,
             odeliveries |-> ShapeDeliveries, ooverlap |-> FALSE]
  /\ syncKeyOf = [v \in Variants |-> IF v = "V3" THEN NoKey ELSE "K"]
  /\ titleOf = [v \in Variants |-> "T1"]
  /\ qty = [v \in Variants |-> 0]
  /\ Start0

NextShapes ==
  \/ StockChange("V1", 1, "L1")
  \/ \E e \in OddEvents : OddEvent(e)
  \/ \E s \in Slots, e \in pending, errors \in BOOLEAN : StartOdd(s, e, errors)
  \/ \E s \in Slots, e \in pending \ OddEvents : Start(s, e, FALSE)
  \/ \E s \in Slots, e \in pending \ OddEvents : StartLegacy(s, e, FALSE)
  \/ \E s \in Slots : Search(s)
  \/ \E s \in Slots : Adjust(s)
  \/ \E s \in Slots : Lrange(s)
  \/ \E e \in OddOrders : OddOrder(e)
  \/ PlaceOrder("S1")
  \/ \E s \in OSlots, e \in opending, again \in BOOLEAN : OrderStart(s, e, again)
  \/ \E s \in OSlots, e \in opending, again \in BOOLEAN : OrderStartLegacy(s, e, again)
  \/ \E s \in OSlots : ReadCount(s)
  \/ \E s \in OSlots : WriteCount(s)
  \/ \E s \in OSlots : Scan(s)
  \/ \E s \in OSlots : Get(s)
  \/ \E s \in OSlots : SendReport(s)
  \/ \E s \in OSlots : SetSnapshot(s)

SpecShapes == InitShapes /\ [][NextShapes]_vars

\* SpecHooks: the inventory and the order webhook side by side, one invocation of
\* each at a time, every remote call answered
InitHooks ==
  /\ orev \in OrderRevisions
  /\ OrderStart0
  /\ rev \in Revisions
  /\ caps = [stock |-> HookStockChanges, deliveries |-> HookDeliveries, requests |-> 0,
             overlap |-> FALSE, locs |-> Locations,
             orders |-> HookOrders, restocks |-> 0,
             odeliveries |-> HookDeliveries, ooverlap |-> FALSE]
  /\ syncKeyOf = [v \in Variants |-> IF v = "V3" THEN NoKey ELSE "K"]
  /\ titleOf = [v \in Variants |-> "T1"]
  /\ qty = [v \in Variants |-> 0]
  /\ Start0

NextHooks ==
  \/ Platform
  \/ \E s \in Slots, e \in pending : Unauthorized(s, e)
  \/ \E s \in Slots, e \in pending, again \in BOOLEAN : Start(s, e, again)
  \/ \E s \in Slots, e \in pending, again \in BOOLEAN : StartLegacy(s, e, again)
  \/ \E s \in Slots : Search(s)
  \/ \E s \in Slots : Adjust(s)
  \/ \E s \in Slots : Lrange(s)
  \/ \E k \in OrderSkus \cup {NonSpoke} : PlaceOrder(k)
  \/ \E s \in OSlots, e \in opending \cup {ManualTest} : OrderUnauthorized(s, e)
  \/ \E s \in OSlots, e \in opending, again \in BOOLEAN : OrderStart(s, e, again)
  \/ \E s \in OSlots : ManualStart(s)
  \/ \E s \in OSlots, e \in opending, again \in BOOLEAN : OrderStartLegacy(s, e, again)
  \/ \E s \in OSlots : ReadCount(s)
  \/ \E s \in OSlots : WriteCount(s)
  \/ \E s \in OSlots : Scan(s)
  \/ \E s \in OSlots : Get(s)
  \/ \E s \in OSlots : SendReport(s)
  \/ \E s \in OSlots : SetSnapshot(s)

SpecHooks == InitHooks /\ [][NextHooks]_vars

\* SpecScan: the scan loop of the current revision over one variant of any shape
InitScan ==
  /\ orev = "router"
  /\ spokeQty = [k \in Range(Spokes) |-> IF k \in OrderSkus THEN MaxStock ELSE 0]
  /\ ledger = [k \in OrderSkus \cup {NonSpoke} |-> NoCount]
  /\ snapshot = NoSnapshot
  /\ opending = {}
  /\ o = [s \in OSlots |-> OIdle]
  /\ reports = {}
  /\ lastReport = NoReport
  /\ nOrders = 0
  /\ nRestocks = 0
  /\ nOrderDeliveries = 0
  /\ probe \in [monitoring : {"true", "false", NoValue}, placeholder : BOOLEAN,
                threshold : ThresholdValues, quantity : 0..MaxProbeQty,
                scanned : {FALSE}, low : {FALSE}]
  /\ alert = AlertIdle(NoValue)
  /\ rev = "sync"
  /\ caps = [stock |-> 0, deliveries |-> 0, requests |-> 0, overlap |-> FALSE, locs |-> {},
             orders |-> 0, restocks |-> 0, odeliveries |-> 0, ooverlap |-> FALSE]
  /\ syncKeyOf = [v \in Variants |-> NoKey]
  /\ titleOf = [v \in Variants |-> "T1"]
  /\ qty = [v \in Variants |-> 0]
  /\ Start0

NextScan == ScanVariant

SpecScan == InitScan /\ [][NextScan]_vars

SpecOrder == InitOrder /\ [][NextOrder]_vars

\* ------------------------------------------------------------- claims
Done200(rec) == rec.pc = "done" /\ rec.status = 200

C2_SingleSend ==
  \A s \in Slots : h[s].delDone =>
     /\ h[s].sendCalls = 1
     /\ h[s].sends = {Range(h[s].emails)}

\* the other variants the broad search of trigger v returns with v's key
FoundSiblings(v) ==
  {w \in Variants \ {v} : titleOf[w] = titleOf[v] /\ syncKeyOf[w] = syncKeyOf[v]}

\* C3: when the Sibling Resolver returns normally for a keyed trigger with a
\* location and target Q, every other variant with that key has quantity Q and the
\* trigger was not adjusted.  (Stated for a delivery that ran alone and whose
\* adjustments the catalog all applied.)
C3_GroupMatchesAfterSync ==
  [][\A s \in Slots :
       (/\ h[s].pc \in {"search", "adjust"}
        /\ h'[s].synced
        /\ h'[s].clean
        /\ h'[s].rejected = {})
       => /\ \A v \in Variants \ {Variant(h[s])} :
               syncKeyOf[v] = syncKeyOf[Variant(h[s])] => qty'[v] = h[s].ev.available
          /\ \A a \in h'[s].adjusts : a.id # Variant(h[s])]_vars

\* C4: once every emitted event has been delivered and no delivery is in progress,
\* every member of the group has the quantity of the trigger observed last.
C4_Converges ==
  (/\ pending = {}
   /\ \A s \in Slots : ~Busy(h[s])
   /\ lastTrigger # NoEvent)
  => \A v \in Variants :
       syncKeyOf[v] = syncKeyOf[lastTrigger.item] => qty[v] = lastTrigger.available

\* C5: a delivery that replays the event of the delivery before it (which ran
\* alone, had its adjustments applied and was answered 200), with nothing in
\* between, finds no sibling to update and issues no adjustment.
C5_ReplayIssuesNothing ==
  \A s \in Slots : (h[s].replay /\ h[s].clean) =>
     /\ h[s].pc # "adjust"
     /\ h[s].adjusts = {}
     /\ h[s].rejected = {}

C5_Witness ==
  \E s \in Slots : /\ h[s].replay /\ h[s].clean
                   /\ h[s].first # {}
                   /\ h[s].synced
                   /\ Done200(h[s])
                   /\ \A a \in h[s].first : qty[a.id] = h[s].ev.available

\* C6: after two overlapping deliveries of the one event there is, both answered
\* 200 with every adjustment applied, each sibling the search finds holds the target.
C6_NoDoubleDelta ==
  (/\ nStockChanges = 1
   /\ Done200(h["s1"]) /\ Done200(h["s2"])
   /\ h["s1"].ev = h["s2"].ev
   /\ h["s1"].synced /\ h["s2"].synced
   /\ h["s1"].rejected = {} /\ h["s2"].rejected = {})
  => \A v \in FoundSiblings(h["s1"].ev.item) : qty[v] = h["s1"].ev.available

\* the SKUs the store holds under last_report_list_json
StoredSkus == Range(PreviousLowStockSKUs(snapshot))

\* the invocation in slot s has compared its scan with the snapshot it read
SameSet(rec) == rec.got /\ Range(rec.prev) = Range(rec.low)
NewSet(rec) == rec.got /\ Range(rec.prev) # Range(rec.low)

\* C7: an invocation whose scan holds the same SKUs as the snapshot it read, in
\* whatever order, ends with 200 having sent nothing and written or deleted nothing.
C7_UnchangedIsSilent ==
  \A s \in OSlots : SameSet(o[s]) =>
     /\ o[s].pc = "done" /\ o[s].status = 200
     /\ o[s].sends = 0
     /\ o[s].writes = <<>>

C7_Witness ==
  \E s \in OSlots : /\ SameSet(o[s])
                    /\ Len(o[s].low) = 2
                    /\ o[s].low # SortSkus(o[s].low)
                    /\ o[s].status = 200

Recovered(rec) == rec.got /\ rec.low = <<>> /\ rec.prev # <<>>

\* C9 as stated: after a recovery the invocation has deleted the key and sent nothing.
C9_DeletesKey ==
  \A s \in OSlots : (Recovered(o[s]) /\ o[s].pc = "done" /\ o[s].status = 200) =>
     /\ o[s].writes = <<"del">>
     /\ o[s].sends = 0

\* C9: after a recovery the invocation sends nothing and leaves the store holding
\* no SKU: the current revision overwrites the snapshot with the empty list, the
\* legacy revision deletes the key.
C9_ClearsSnapshot ==
  /\ [](\A s \in OSlots : Recovered(o[s]) =>
           /\ o[s].sends = 0
           /\ (o[s].pc = "done" /\ o[s].status = 200) =>
                 o[s].writes = IF orev = "legacy" THEN <<"del">> ELSE <<"set">>)
  /\ [][\A s \in OSlots : (Recovered(o[s]) /\ Len(o'[s].writes) > Len(o[s].writes))
           => snapshot' = IF orev = "legacy" THEN NoSnapshot ELSE [present |-> TRUE, skus |-> <<>>]]_vars

C9_Witness ==
  \E s \in OSlots : /\ Recovered(o[s])
                    /\ o[s].status = 200
                    /\ o[s].writes = <<"set">>
                    /\ snapshot = [present |-> TRUE, skus |-> <<>>]

NamedConditions ==
  /\ probe.monitoring = "true"
  /\ ParseThreshold(probe.threshold) > 0
  /\ probe.quantity < ParseThreshold(probe.threshold)

C12_NoReportInCooldown ==
  [][\A s \in OSlots : o'[s].sends > o[s].sends => ~lastReport.fresh]_vars

\* an inventory delivery that was turned away has done nothing
Untouched(rec) ==
  /\ rec.pc = "done" /\ rec.status = 401
  /\ rec.adjusts = {} /\ rec.rejected = {} /\ ~rec.synced
  /\ rec.emails = <<>> /\ rec.sendCalls = 0 /\ ~rec.delDone

\* an order request that was turned away has done nothing
OUntouched(rec) ==
  /\ rec.pc = "done" /\ rec.status = 401
  /\ ~rec.got /\ rec.low = <<>> /\ rec.sends = 0 /\ rec.writes = <<>>

\* C13 as stated: every request without a valid signature, the manual test
\* request included, is answered 401 and has done nothing.
C13_UnsignedDoesNothing ==
  /\ \A s \in Slots : h[s].forged => Untouched(h[s])
  /\ \A s \in OSlots : (o[s].forged \/ o[s].ev = ManualTest) => OUntouched(o[s])

\* C13: a webhook delivery whose signature is missing or wrong is answered 401 in
\* the step that receives it, and that step changes nothing in the catalog or the
\* store and sends nothing.  (The manual test request is admitted by its secret.)
C13_ForgedDoesNothing ==
  /\ [](\A s \in Slots : h[s].forged => Untouched(h[s]))
  /\ [](\A s \in OSlots : o[s].forged => OUntouched(o[s]))
  /\ [][((\E s \in Slots : h'[s].forged /\ h'[s] # h[s])
          \/ (\E s \in OSlots : o'[s].forged /\ o'[s] # o[s]))
         => UNCHANGED <<qty, waitlist, pending, spokeQty, ledger, snapshot, opending,
                        reports, lastReport>>]_vars

C13_Witness ==
  /\ h["s1"].forged
  /\ o["o1"].forged
  /\ pending # {}
  /\ opending # {}

\* C14: a delivery that was answered carries status 200, 401 or 500 and no other.
C14_StatusCodes ==
  /\ \A s \in Slots : h[s].pc = "done" => h[s].status \in {200, 401, 500}
  /\ \A s \in OSlots : o[s].pc = "done" => o[s].status \in {200, 401, 500}

\* the delivery is somewhere in the notification block (waitlist read, send, delete)
Notifying(rec) == rec.pc \in {"lrange", "send", "del"}

\* C15: a verified delivery whose event reports available <= 0 never enters the
\* notification block (no waitlist read, no send, no delete), yet when it is
\* answered 200 for a variant with a location and a sync key the Sibling Resolver
\* has run; a delivery in the notification block carries available > 0.
C15_ZeroSkipsNotifier ==
  \A s \in Slots :
    /\ (h[s].ev # NoEvent /\ h[s].ev.available <= 0) =>
          /\ ~Notifying(h[s])
          /\ h[s].emails = <<>> /\ h[s].sendCalls = 0 /\ h[s].sends = {} /\ ~h[s].delDone
          /\ (/\ Done200(h[s])
              /\ h[s].ev.loc # NoLocation
              /\ syncKeyOf[Variant(h[s])] # NoKey) => h[s].synced
    /\ Notifying(h[s]) => h[s].ev.available > 0

C15_Witness ==
  \E s \in Slots :
    /\ h[s].ev # NoEvent /\ h[s].ev.available = 0
    /\ Done200(h[s])
    /\ h[s].synced
    /\ h[s].adjusts # {}

\* the step in which slot s has its metafieldsSet applied
Wrote(s) ==
  /\ o[s].pc = "write"
  /\ o'[s] # o[s]
  /\ ~(o'[s].pc = "done" /\ o'[s].status = 500)

\* C16: the counter read for a line item is the stored value, or 0 when none is
\* stored; an order-created delivery writes that value plus the item quantity, an
\* order-cancelled delivery writes it minus the quantity, or 0 if that would be
\* negative; the value written is never negative.
C16_CounterArithmetic ==
  [][\A s \in OSlots :
       /\ (o[s].pc = "read" /\ o'[s].pc = "write") =>
             LET k == Head(o[s].items).sku
             IN o'[s].cur = (IF ledger[k] = NoCount THEN 0 ELSE ledger[k])
       /\ Wrote(s) =>
             LET k == Head(o[s].items).sku
                 q == Head(o[s].items).quantity
                 stored == ledger'[k]
             IN /\ stored >= 0
                /\ o[s].ev.topic = "orders/create" => stored = o[s].cur + q
                /\ o[s].ev.topic = "orders/cancelled" =>
                      stored = (IF o[s].cur >= q THEN o[s].cur - q ELSE 0)]_vars

\* a cancellation was clamped at zero and a creation was counted
C16_Witness ==
  /\ \E s \in OSlots : /\ o[s].ev.topic = "orders/cancelled"
                       /\ Done200(o[s])
                       /\ ledger[o[s].ev.sku] = 0
  /\ \E k \in DOMAIN ledger : ledger[k] >= 1

\* C17: however often the platform delivers an order-created event, a variant's
\* historical order counter never exceeds the number of orders that were placed.
C17_CountedOnce ==
  \A k \in DOMAIN ledger : CurrentCount(ledger, k) <= nOrders

\* C18: when a delivery sends its report while another delivery is in flight that
\* read the same snapshot and found the same low-stock list, and neither has
\* written the snapshot yet, that other delivery has not sent a report.
C18_OneReportPerChange ==
  [][\A s, t \in OSlots :
       (/\ s # t
        /\ o'[s].sends > o[s].sends
        /\ OBusy(o[t]) /\ o[t].got
        /\ o[t].writes = <<>> /\ o[s].writes = <<>>
        /\ o[t].prev = o[s].prev
        /\ CurrentLowStockSKUs(o[t]) = CurrentLowStockSKUs(o[s]))
       => o[t].sends = 0]_vars

\* both invocations notified recipient e for the same variant
NotifiedTwice(e) ==
  /\ e \in h["s1"].notified
  /\ e \in h["s2"].notified
  /\ Variant(h["s1"]) = Variant(h["s2"])

\* C19: two deliveries for the same variant can both read the waitlist before
\* either deletes it and then both notify the same recipient; with a single
\* sign-up and both deletes done, that overlap is the only way a recipient is
\* notified by both deliveries.
C19_TwiceOnlyByOverlap ==
  \A e \in Emails :
    (/\ nRequests <= 1
     /\ NotifiedTwice(e)
     /\ h["s1"].delDone /\ h["s2"].delDone)
    => (h["s1"].raced \/ h["s2"].raced)

C19_Witness ==
  \E e \in Emails :
    /\ nRequests <= 1
    /\ NotifiedTwice(e)
    /\ h["s1"].delDone /\ h["s2"].delDone
    /\ h["s1"].raced \/ h["s2"].raced

\* C20: once the only delivery processed last was verified, answered 200 and
\* reported available > 0, the store holds no waitlist for its variant.
C20_NoWaitlistInStock ==
  (/\ h["s2"] = Idle
   /\ Done200(h["s1"])
   /\ ~h["s1"].forged
   /\ h["s1"].ev.available > 0)
  => waitlist[Variant(h["s1"])] = <<>>

\* C21: an order-cancelled delivery that was answered 200 has scanned the spoke
\* products and read the stored snapshot for the comparison.
C21_CancelRescans ==
  \A s \in OSlots :
    (o[s].ev.topic = "orders/cancelled" /\ Done200(o[s])) => o[s].got

\* the variants a delivery has queued for adjustment, adjusted, or had refused
Targets(rec) ==
  {rec.updates[i].id : i \in 1..Len(rec.updates)} \cup {a.id : a \in rec.adjusts} \cup rec.rejected

\* C22: the trigger variant is never among the variants a delivery queues for
\* adjustment or adjusts, also when the search returns it and its catalog
\* quantity differs from the target quantity.
C22_TriggerNotAdjusted ==
  \A s \in Slots : Variant(h[s]) \notin Targets(h[s])

\* the search ran while the trigger's own quantity differed from the target
C22_Witness ==
  \E s \in Slots :
    /\ h[s].pc = "adjust"
    /\ h[s].clean
    /\ Variant(h[s]) \in SearchCandidates(Variant(h[s]))
    /\ qty[Variant(h[s])] # h[s].ev.available

\* C23: every variant a delivery queues for adjustment or adjusts carries the
\* trigger's sync key, which is set; a delivery whose trigger has no sync key
\* neither searches nor adjusts.
C23_OnlySameKey ==
  \A s \in Slots :
    /\ \A v \in Targets(h[s]) :
         /\ syncKeyOf[v] # NoKey
         /\ syncKeyOf[v] = syncKeyOf[Variant(h[s])]
    /\ (h[s].ev # NoEvent /\ syncKeyOf[Variant(h[s])] = NoKey) =>
         /\ h[s].pc \notin {"search", "adjust"}
         /\ Targets(h[s]) = {}

\* one delivery adjusts although the search returned a variant with another or no
\* key, while a delivery for a variant without key has passed the resolver
C23_Witness ==
  \E s, t \in Slots :
    /\ h[s].adjusts # {}
    /\ \E v \in SearchCandidates(Variant(h[s])) : syncKeyOf[v] # syncKeyOf[Variant(h[s])]
    /\ h[t].ev # NoEvent /\ ~h[t].forged
    /\ h[t].ev.loc # NoLocation
    /\ syncKeyOf[Variant(h[t])] = NoKey
    /\ h[t].synced

\* C24: the search queues each same-key sibling whose quantity differs from the
\* target exactly once and no sibling already at the target; each adjustment is
\* issued for a sibling not yet adjusted by this delivery, with
\* delta = target - the quantity the search read, and, unless the catalog refuses
\* it, changes that sibling only; the resolver returns only after the last queued
\* sibling had its adjustment issued.
C24_OneDeltaPerSibling ==
  [][\A s \in Slots :
       /\ (h[s].pc = "search" /\ h'[s].pc = "adjust") =>
            LET ups == h'[s].updates
            IN /\ \A i \in 1..Len(ups) :
                    /\ ups[i].q = qty[ups[i].id]
                    /\ ups[i].q # h[s].ev.available
                    /\ \A j \in 1..Len(ups) : ups[j].id = ups[i].id => j = i
               /\ \A v \in SearchCandidates(Variant(h[s])) \ {Variant(h[s])} :
                    (syncKeyOf[v] = syncKeyOf[Variant(h[s])] /\ qty[v] # h[s].ev.available)
                      => \E i \in 1..Len(ups) : ups[i].id = v
       /\ (h[s].pc = "adjust" /\ h'[s].adjusts # h[s].adjusts) =>
            LET sib == Head(h[s].updates)
                delta == h[s].ev.available - sib.q
            IN /\ h'[s].adjusts = h[s].adjusts \cup {[id |-> sib.id, delta |-> delta]}
               /\ \A a \in h[s].adjusts : a.id # sib.id
               /\ sib.id \notin h'[s].rejected => qty' = [qty EXCEPT ![sib.id] = @ + delta]
       /\ (h[s].pc = "adjust" /\ h'[s].synced) => Len(h[s].updates) = 1]_vars

\* one sibling was adjusted, another one of the group was found at the target
C24_Witness ==
  \E s \in Slots :
    /\ Done200(h[s]) /\ h[s].clean
    /\ h[s].adjusts # {}
    /\ \A a \in h[s].adjusts : a.delta = h[s].ev.available - 0 /\ a.delta # 0
    /\ \E v \in SearchCandidates(Variant(h[s])) \ {Variant(h[s])} :
         /\ syncKeyOf[v] = syncKeyOf[Variant(h[s])]
         /\ qty[v] = h[s].ev.available
         /\ v \notin Targets(h[s])

\* C25: a delivery whose event carries no location id never searches, queues no
\* sibling and issues no adjustment.
C25_NoLocationNoAdjustment ==
  \A s \in Slots :
    (h[s].ev # NoEvent /\ h[s].ev.loc = NoLocation) =>
      /\ h[s].pc \notin {"search", "adjust"}
      /\ Targets(h[s]) = {}
      /\ ~h[s].synced

\* a delivery without location was answered 200 while a sibling of its group is
\* off the target
C25_Witness ==
  \E s \in Slots :
    /\ h[s].ev # NoEvent /\ h[s].ev.loc = NoLocation
    /\ Done200(h[s]) /\ h[s].clean
    /\ \E v \in SearchCandidates(Variant(h[s])) \ {Variant(h[s])} :
         /\ syncKeyOf[v] # NoKey
         /\ syncKeyOf[v] = syncKeyOf[Variant(h[s])]
         /\ qty[v] # h[s].ev.available

\* C26: a verified delivery whose event carries no location id, for a variant
\* with a sync key, is not answered 200.
C26_NoLocationIsFailure ==
  \A s \in Slots :
    (/\ h[s].ev # NoEvent /\ ~h[s].forged
     /\ h[s].ev.loc = NoLocation
     /\ syncKeyOf[Variant(h[s])] # NoKey
     /\ h[s].pc = "done")
    => h[s].status # 200

\* C27: a delivery in the adjustment loop ends only after the last queued sibling
\* had its adjustment attempted, and it is then answered 200.
C27_LoopSurvivesFailure ==
  [][\A s \in Slots :
       (h[s].pc = "adjust" /\ h'[s].pc = "done") =>
         /\ Len(h[s].updates) = 1
         /\ h'[s].status = 200]_vars

\* C28: a delivery that still has a further line item to count does not end at
\* the read or the write of the current one.
C28_ItemsIndependent ==
  [][\A s \in OSlots :
       (o[s].pc \in {"read", "write"} /\ Len(o[s].items) > 1) => o'[s].pc # "done"]_vars

\* C29: a delivery leaves the scan either with the complete low-stock list, on
\* its way to the comparison, or ended with an error status, having sent no
\* report and written or deleted no snapshot; a delivery that ended before
\* reading the snapshot has sent and written nothing.
C29_ScanFailureWritesNothing ==
  /\ [][\A s \in OSlots :
          (o[s].pc = "scan" /\ o'[s].pc # "scan") =>
            \/ /\ o'[s].pc = "get"
               /\ o'[s].low = LowStockItems(Spokes, spokeQty, orev)
            \/ /\ o'[s].pc = "done"
               /\ o'[s].status \in {500, 401}
               /\ ~o'[s].got /\ o'[s].sends = 0 /\ o'[s].writes = <<>>
               /\ UNCHANGED <<snapshot, reports, lastReport>>]_vars
  /\ [](\A s \in OSlots :
          (o[s].pc = "done" /\ ~o[s].got) => (o[s].sends = 0 /\ o[s].writes = <<>>))

\* the only delivery so far counted its order and then failed in the scan, which
\* would have found a low spoke
C29_Witness ==
  \E s \in OSlots :
    /\ o[s].pc = "done" /\ o[s].status = 500
    /\ o[s].ev.topic = "orders/create"
    /\ o[s].ev.sku \in OrderSkus
    /\ nOrderDeliveries = 1 /\ nOrders = 1 /\ nRestocks = 0
    /\ orev = "router" => ledger[o[s].ev.sku] = 1
    /\ o[s].low = <<>>
    /\ LowStockItems(Spokes, spokeQty, orev) # <<>>
    /\ snapshot = NoSnapshot
    /\ reports = {}

\* C30: a delivery that was answered 200 after the resolver returned had none of
\* its adjustments refused by the catalog.
C30_RefusedIsFailure ==
  \A s \in Slots : (Done200(h[s]) /\ h[s].synced) => h[s].rejected = {}

\* a verified order delivery did none of the handler's work
NoOrderWork(rec) ==
  /\ ~rec.got /\ rec.low = <<>> /\ rec.sends = 0 /\ rec.writes = <<>>

\* C31: a verified delivery whose topic the router does not know is answered 200
\* in the step that receives it, is not delivered again on its account, and that
\* step changes no counter, no snapshot and sends no report.
C31_UnknownTopicIsNoOp ==
  /\ [](\A s \in OSlots :
          (o[s].pc # "idle" /\ ~o[s].forged /\ o[s].ev.topic \notin RoutedTopics) =>
            (Done200(o[s]) /\ NoOrderWork(o[s])))
  /\ [][\A s \in OSlots :
          (o'[s] # o[s] /\ ~o'[s].forged /\ o'[s].ev.topic \notin RoutedTopics) =>
            /\ UNCHANGED <<spokeQty, ledger, snapshot, reports, lastReport>>
            /\ opending' \subseteq opending]_vars

C31_Witness ==
  \E s \in OSlots :
    /\ o[s].ev.topic = "products/update"
    /\ ~o[s].forged
    /\ Done200(o[s])
    /\ o[s].ev \notin opending
    /\ reports # {}

\* C32: a verified delivery that lacks a required field (an order without
\* line_items, an inventory event without inventory_item_id) is, once answered,
\* answered 200.
C32_MissingFieldIsNoOp ==
  /\ \A s \in OSlots :
       (o[s].ev.sku = NoLineItems /\ ~o[s].forged /\ o[s].pc = "done") => o[s].status = 200
  /\ \A s \in Slots :
       (h[s].ev.item = NoItemId /\ ~h[s].forged /\ h[s].pc = "done") => h[s].status = 200

\* C33: a verified delivery whose body is no JSON is, once answered, answered 200.
C33_MalformedIsNoOp ==
  /\ \A s \in OSlots :
       (o[s].ev.sku = Garbled /\ ~o[s].forged /\ o[s].pc = "done") => o[s].status = 200
  /\ \A s \in Slots :
       (h[s].ev.item = Garbled /\ ~h[s].forged /\ h[s].pc = "done") => h[s].status = 200

\* ------------------------------------------------ specification: alert handler
\* one process of the per-variant alert handler, deliveries one after the other
InitAlert ==
  /\ Start0
  /\ rev = "sync"
  /\ caps = [stock |-> 0, deliveries |-> 0, requests |-> 0, overlap |-> FALSE, locs |-> {},
             orders |-> 0, restocks |-> 0, odeliveries |-> 0, ooverlap |-> FALSE]
  /\ orev = "router"
  /\ probe = NoProbe
  /\ spokeQty = [k \in Range(Spokes) |-> IF k \in OrderSkus THEN MaxStock ELSE 0]
  /\ ledger = [k \in OrderSkus \cup {NonSpoke} |-> NoCount]
  /\ snapshot = NoSnapshot
  /\ opending = {}
  /\ o = [s \in OSlots |-> OIdle]
  /\ reports = {}
  /\ lastReport = NoReport
  /\ nOrders = 0
  /\ nRestocks = 0
  /\ nOrderDeliveries = 0
  /\ syncKeyOf = [v \in Variants |-> NoKey]
  /\ titleOf = [v \in Variants |-> "T1"]
  /\ qty = [v \in Variants |-> 0]
  /\ \E m \in MonitoringValues : alert = AlertIdle(m)

NextAlert ==
  \/ \E e \in AlertEvents : AlertStart(e)
  \/ AlertLookup
  \/ AlertSend
  \/ AlertFails

SpecAlert == InitAlert /\ [][NextAlert]_vars

C35_OnlyNotifiedRemoved ==
  [][\A v \in Variants : \A e \in Range(waitlist[v]) \ Range(waitlist'[v]) :
       \E s \in Slots : /\ h[s].pc = "del"
                        /\ Variant(h[s]) = v
                        /\ h[s].sendOk
                        /\ e \in h[s].notified]_vars

\* ------------------------------------------------------ specification: cascade
\* SpecCascade: the current revision, one delivery at a time, every remote call answered,
\* every event delivered once, and deliveries going on for as long as events are pending.
\* The platform delivers every event it has emitted, and a handler that was started runs on.
InitCascade ==
  /\ orev = "router"
  /\ OrderStart0
  /\ rev = "sync"
  /\ caps = [stock |-> MaxStockChanges, deliveries |-> 0, requests |-> 0,
             overlap |-> FALSE, locs |-> Locations,
             orders |-> 0, restocks |-> 0, odeliveries |-> 0, ooverlap |-> FALSE,
             uncounted |-> TRUE]
  /\ Catalog
  /\ Start0

Deliver(e) == \E s \in Slots : Start(s, e, FALSE)

HandlerStep == \E s \in Slots : Search(s) \/ Adjust(s) \/ Lrange(s)

NextCascade ==
  \/ Platform
  \/ \E s \in Slots, e \in pending : Start(s, e, FALSE)
  \/ \E s \in Slots : Search(s)
  \/ \E s \in Slots : Adjust(s)
  \/ \E s \in Slots : Lrange(s)

SpecCascade ==
  /\ InitCascade
  /\ [][NextCascade]_vars
  /\ WF_vars(HandlerStep)
  /\ \A e \in [item : Variants, loc : Locations, available : 0..MaxQty] : SF_vars(Deliver(e))

\* C36: the cascade of events emitted by sibling adjustments ends: from some delivery on
\* no adjustment is issued any more
C36_CascadeTerminates == <>[](\A s \in Slots : h[s].pc # "adjust")

\* --------------------------------------------------------- specification: race
\* SpecRace: the current revision of the order handler, two invocations at a time, every
\* order carrying spoke S1 and delivered once, every remote call answered
InitRace ==
  /\ orev = "router"
  /\ OrderStart0
  /\ rev = "sync"
  /\ caps = [stock |-> 0, deliveries |-> 0, requests |-> 0, overlap |-> FALSE, locs |-> {},
             orders |-> RaceOrders, restocks |-> 1,
             odeliveries |-> RaceDeliveries, ooverlap |-> TRUE]
  /\ syncKeyOf = [v \in Variants |-> NoKey]
  /\ titleOf = [v \in Variants |-> "T1"]
  /\ qty = [v \in Variants |-> 0]
  /\ Start0

NextRace ==
  \/ \E k \in {"S1", Basket} : PlaceOrder(k)
  \/ Restock("S1")
  \/ \E s \in OSlots, e \in opending : OrderStart(s, e, FALSE)
  \/ \E s \in OSlots : ReadCount(s)
  \/ \E s \in OSlots : WriteCount(s)
  \/ \E s \in OSlots : Scan(s)
  \/ \E s \in OSlots : Get(s)
  \/ \E s \in OSlots : SendReport(s)
  \/ \E s \in OSlots : SetSnapshot(s)

SpecRace == InitRace /\ [][NextRace]_vars

\* C37: once every delivery has ended, the order counter of S1 has been raised by the
\* quantity (one) of every order delivered, also when two deliveries ran at the same time
C37_NoLostIncrement ==
  (\A s \in OSlots : ~OBusy(o[s])) => CurrentCount(ledger, "S1") = nOrderDeliveries

\* C38: the sibling sync is over before the waitlist is touched, and a delivery in which
\* an adjustment of the sync failed reads no waitlist, sends nothing, deletes nothing and
\* is answered 500
C38_SyncFailureEndsDelivery ==
  \A s \in Slots :
    /\ Notifying(h[s]) => h[s].updates = <<>>
    /\ h[s].rejected # {} =>
         /\ ~Notifying(h[s])
         /\ h[s].emails = <<>>
         /\ h[s].sendCalls = 0
         /\ ~h[s].delDone
         /\ h[s].pc = "done" => h[s].status = 500

Reconciling(rec) ==
  \/ rec.pc \in {"scan", "get", "send", "set", "del"}
  \/ rec.got
  \/ rec.low # <<>>
  \/ rec.sends > 0

\* C40: an invocation of the order endpoint that is in the reconciliation was admitted by
\* its signature or by the manual test secret; a manual test request with a wrong or no
\* secret is answered 401 and has run nothing; and every report and every snapshot write
\* is the step of an admitted invocation
C40_ReconcileOnlyAdmitted ==
  /\ [](\A s \in OSlots : Reconciling(o[s]) => ~o[s].forged)
  /\ [](\A s \in OSlots : (o[s].forged /\ o[s].ev = ManualTest) => OUntouched(o[s]))
  /\ [][(reports' # reports \/ snapshot' # snapshot)
          => \E s \in OSlots : /\ ~o[s].forged
                               /\ o[s].pc \in {"send", "set", "del"}
                               /\ o'[s] # o[s]]_vars

\* a manual test request with a wrong secret was answered 401 after an admitted
\* invocation had sent a report
C40_Witness ==
  /\ o["o1"].forged
  /\ o["o1"].ev = ManualTest
  /\ o["o1"].status = 401
  /\ reports # {}

=============================================================================
